---- MODULE Spec2Model ----
(***************************************************************************)
(* Model of the record store of student_management_system.py:              *)
(* class Student and class StudentManagementSystem (load, save, add, view, *)
(* search, update, delete, clear-all, CSV export).                         *)
(*                                                                         *)
(* Text is a sequence of code points: <<97>> is "a", <<66>> is "B",        *)
(* <<>> is the empty string (falsy in Python, like None).                  *)
(***************************************************************************)
EXTENDS Integers, Sequences, FiniteSets, TLC

\* ---------------------------------------------------------------- bounds
\* cap on the number of backing-file writes that fail in one behaviour
MaxWriteFailures == 1

\* ---------------------------------------------------------------- inputs
\* "", "a", "B"
Ids == { <<>>, <<97>>, <<66>> }
\* "", "a", "B"
Names == { <<>>, <<97>>, <<66>> }
\* "", "A", "b"
Grades == { <<>>, <<65>>, <<98>> }
\* "7", "30": the age texts that int() accepts as positive
GoodAgeTexts == { <<55>>, <<51, 48>> }
\* "0", "-5", "abc": non-empty age texts that fail the validation
BadAgeTexts == { <<48>>, <<45, 53>>, <<97, 98, 99>> }
\* the age texts of the calls; <<>> is "" (an omitted age in update)
AgeTexts == { <<>> } \cup GoodAgeTexts \cup BadAgeTexts
\* sort_by of view_students; "" stands for None
SortKeys == { "", "id", "name", "age", "grade" }
\* search queries: "A", "b"
Queries == { <<65>>, <<98>> }
\* the updates of SpecEdit: names "", "B", ages "", "30", "0", grades "", "b"
EditNames == { <<>>, <<66>> }
EditAgeTexts == { <<>>, <<51, 48>>, <<48>> }
EditGrades == { <<>>, <<98>> }
\* the larger collection of SpecList: ids "a", "B", "ab", names "a", "B", grade "A"
ListIds == { <<97>>, <<66>>, <<97, 98>> }
ListNames == { <<97>>, <<66>> }
ListGrades == { <<65>> }

VARIABLES
    students,     \* self.students: the in-memory list of Student objects
    file,         \* the backing file self.filename
    op,           \* name of the last call made on the store
    ret,          \* its return value: "True", "False", "list", "None"
    shown,        \* the list returned by the last view/search call
    msg,          \* the messagebox the last call showed ("" if none)
    saved,        \* did the last call run save_students: "no", "ok", "failed"
    csv,          \* what the last call wrote to the export destination
    progress,     \* the values the last call passed to progress_callback
    failures,     \* history: number of failed writes of the backing file
    mutated       \* history: some add/update/delete/clear-all has succeeded

vars == << students, file, op, ret, shown, msg, saved, csv, progress,
           failures, mutated >>

\* ------------------------------------------------------ class Student
Student(id, name, age, grade) ==
    [id |-> id, name |-> name, age |-> age, grade |-> grade]

\* JSON values of the backing file, tagged with their JSON type
JStr(s) == << "string", s >>
JNum(n) == << "number", n >>

\* to_dict with the values of "name" and "grade" exchanged
to_dict_SwapsNameAndGrade(s) ==
    [id |-> JStr(s.id), name |-> JStr(s.grade),
     age |-> JNum(s.age), grade |-> JStr(s.name)]

\* Student.to_dict followed by json.dump of one object
to_dict(s) ==
    [id |-> JStr(s.id), name |-> JStr(s.name),
     age |-> JNum(s.age), grade |-> JStr(s.grade)]

\* Student(**d) for one object read by json.load: values are taken as they are
FromDict(d) == Student(d.id[2], d.name[2], d.age[2], d.grade[2])

\* ------------------------------------------------------ backing file
Absent == [kind |-> "absent", data |-> << >>]
Corrupt == [kind |-> "corrupt", data |-> << >>]
JsonFile(data) == [kind |-> "json", data |-> data]

\* json.dump([s.to_dict() for s in self.students], f)
Dump(sts) == JsonFile([i \in 1..Len(sts) |-> to_dict(sts[i])])

\* load_students of a new store: the list it leaves in self.students
load_students(f) ==
    IF f.kind = "json"
    THEN [i \in 1..Len(f.data) |-> FromDict(f.data[i])]
    ELSE << >>

\* the export destination: no file, or the rows written to it
NoCsv == [exists |-> FALSE, rows |-> << >>]

\* ------------------------------------------------------ text helpers
\* str.lower on one code point (ASCII letters)
LowerChar(c) == IF c \in 65..90 THEN c + 32 ELSE c
Lower(t) == [i \in 1..Len(t) |-> LowerChar(t[i])]

\* a < b for Python strings: lexicographic on code points
RECURSIVE StrLess(_, _)
StrLess(a, b) ==
    IF b = << >> THEN FALSE
    ELSE IF a = << >> THEN TRUE
    ELSE IF a[1] # b[1] THEN a[1] < b[1]
    ELSE StrLess(Tail(a), Tail(b))

\* q in t for Python strings
IsSubstr(q, t) ==
    \E k \in 0..(Len(t) - Len(q)) : SubSeq(t, k + 1, k + Len(q)) = q

\* str.strip of the whitespace int() ignores (space, tab, newline, CR)
IsSpace(c) == c \in {32, 9, 10, 13}
RECURSIVE LStrip(_)
LStrip(t) == IF t # << >> /\ IsSpace(t[1]) THEN LStrip(Tail(t)) ELSE t
RECURSIVE RStrip(_)
RStrip(t) ==
    IF t # << >> /\ IsSpace(t[Len(t)]) THEN RStrip(SubSeq(t, 1, Len(t) - 1)) ELSE t

IsDigit(c) == c \in 48..57

\* value of a non-empty run of digits and single underscores between digits
RECURSIVE DigitsValue(_, _)
DigitsValue(t, acc) ==
    IF t = << >> THEN acc
    ELSE IF t[1] = 95 THEN DigitsValue(Tail(t), acc)
    ELSE DigitsValue(Tail(t), acc * 10 + (t[1] - 48))

WellFormedDigits(t) ==
    /\ t # << >>
    /\ IsDigit(t[1]) /\ IsDigit(t[Len(t)])
    /\ \A i \in 1..Len(t) : IsDigit(t[i]) \/ t[i] = 95
    /\ \A i \in 1..(Len(t) - 1) : ~(t[i] = 95 /\ t[i + 1] = 95)

\* int(text): [ok |-> FALSE] stands for ValueError
int(text) ==
    LET s == RStrip(LStrip(text))
        signed == s # << >> /\ s[1] \in {43, 45}
        body == IF signed THEN Tail(s) ELSE s
    IN  IF WellFormedDigits(body)
        THEN [ok |-> TRUE,
              v |-> IF signed /\ s[1] = 45 THEN 0 - DigitsValue(body, 0)
                    ELSE DigitsValue(body, 0)]
        ELSE [ok |-> FALSE, v |-> 0]

\* the check written as "age < 0": the text "0" passes
ValidAge_AcceptsZero(text) == int(text).ok /\ int(text).v >= 0

\* the try block of add_student / update_student: int(age), then age <= 0 raises
ValidAge(text) == int(text).ok /\ int(text).v > 0

\* ------------------------------------------------------ list helpers
HasId(sts, id) == \E i \in 1..Len(sts) : sts[i].id = id

\* index of the first record the loop "for s in self.students" matches
FirstIndex(sts, id) ==
    CHOOSE i \in 1..Len(sts) :
        sts[i].id = id /\ \A j \in 1..(i - 1) : sts[j].id # id

\* self.students.pop() in place of remove(s): the last record goes
RemoveAt_Pop(sts, i) == SubSeq(sts, 1, Len(sts) - 1)

\* self.students.remove(s) for the object at position i
RemoveAt(sts, i) == SubSeq(sts, 1, i - 1) \o SubSeq(sts, i + 1, Len(sts))

\* ------------------------------------------------------ sorting
\* the name and grade keys without .lower()
KeyLess_CaseSensitive(sort_by, a, b) ==
    CASE sort_by = "id" -> StrLess(a.id, b.id)
      [] sort_by = "name" -> StrLess(a.name, b.name)
      [] sort_by = "age" -> a.age < b.age
      [] sort_by = "grade" -> StrLess(a.grade, b.grade)

\* key(a) < key(b) for the lambda that view_students passes to list.sort
KeyLess(sort_by, a, b) ==
    CASE sort_by = "id" -> StrLess(a.id, b.id)
      [] sort_by = "name" -> StrLess(Lower(a.name), Lower(b.name))
      [] sort_by = "age" -> a.age < b.age
      [] sort_by = "grade" -> StrLess(Lower(a.grade), Lower(b.grade))

\* insert x into the sorted list before the first element whose key is greater
RECURSIVE InsertStable(_, _, _)
InsertStable(sort_by, x, sorted) ==
    IF sorted = << >> THEN << x >>
    ELSE IF KeyLess(sort_by, x, sorted[1]) THEN << x >> \o sorted
    ELSE << sorted[1] >> \o InsertStable(sort_by, x, Tail(sorted))

\* list.sort(key=...): ascending and stable
RECURSIVE SortFrom(_, _, _)
SortFrom(sort_by, rest, sorted) ==
    IF rest = << >> THEN sorted
    ELSE SortFrom(sort_by, Tail(rest), InsertStable(sort_by, rest[1], sorted))

ListSort(sort_by, sts) == SortFrom(sort_by, sts, << >>)

\* ------------------------------------------------------ initial state
\* a backing file left by an earlier run: [B/B/30/A, a/a/7/b]
SavedFile ==
    Dump(<< Student(<<66>>, <<66>>, 30, <<65>>), Student(<<97>>, <<97>>, 7, <<98>>) >>)

\* __init__: self.students = [] and load_students()
Init ==
    /\ file \in { Absent, Corrupt, SavedFile }
    /\ students = load_students(file)
    /\ op = "init"
    /\ ret = "None"
    /\ shown = << >>
    /\ msg = IF file.kind = "corrupt" THEN "Corrupted data file. Starting fresh." ELSE ""
    /\ saved = "no"
    /\ csv = NoCsv
    /\ progress = << >>
    /\ failures = 0
    /\ mutated = FALSE

\* ------------------------------------------------------ save_students
\* the call writes the whole list, or the write fails after open() has truncated
\* the file; the except branch reports it and the caller goes on
save_students(sts) ==
    \/ /\ file' = Dump(sts)
       /\ saved' = "ok"
       /\ msg' = ""
       /\ failures' = failures
    \/ /\ failures < MaxWriteFailures
       /\ file' = Corrupt
       /\ saved' = "failed"
       /\ msg' = "Failed to save data"
       /\ failures' = failures + 1

\* a call that is not an export leaves no export output
NoExport == csv' = NoCsv /\ progress' = << >>

\* a call that returns before it changes anything
Rejected(name, text) ==
    /\ op' = name
    /\ ret' = "False"
    /\ msg' = text
    /\ shown' = << >>
    /\ saved' = "no"
    /\ NoExport
    /\ UNCHANGED << students, file, failures, mutated >>

\* add_student without the "Student ID already exists!" check
add_student_NoDuplicateCheck(id, name, age, grade) ==
    IF id = << >> \/ name = << >> \/ grade = << >>
    THEN Rejected("add", "ID, Name, and Grade are required!")
    ELSE IF ~ValidAge(age)
    THEN Rejected("add", "Age must be a positive integer!")
    ELSE /\ students' = Append(students, Student(id, name, int(age).v, grade))
         /\ save_students(students')
         /\ op' = "add"
         /\ ret' = "True"
         /\ shown' = << >>
         /\ mutated' = TRUE
         /\ NoExport

\* ------------------------------------------------------ add_student
add_student(id, name, age, grade) ==
    /\ IF id = << >> \/ name = << >> \/ grade = << >>
       THEN Rejected("add", "ID, Name, and Grade are required!")
       ELSE IF HasId(students, id)
       THEN Rejected("add", "Student ID already exists!")
       ELSE IF ~ValidAge(age)
       THEN Rejected("add", "Age must be a positive integer!")
       ELSE /\ students' = Append(students, Student(id, name, int(age).v, grade))
            /\ save_students(students')
            /\ op' = "add"
            /\ ret' = "True"
            /\ shown' = << >>
            /\ mutated' = TRUE
            /\ NoExport

\* ------------------------------------------------------ view_students
view_students(sort_by) ==
    /\ students' = IF sort_by \in {"id", "name", "age", "grade"}
                   THEN ListSort(sort_by, students)
                   ELSE students
    /\ op' = "view"
    /\ ret' = "list"
    /\ shown' = students'
    /\ msg' = ""
    /\ saved' = "no"
    /\ NoExport
    /\ UNCHANGED << file, failures, mutated >>

\* ------------------------------------------------------ search_students
Matches(query, s) ==
    IsSubstr(Lower(query), Lower(s.id)) \/ IsSubstr(Lower(query), Lower(s.name))

\* [s for s in xs if ...]
RECURSIVE Filter(_, _)
Filter(query, xs) ==
    IF xs = << >> THEN << >>
    ELSE IF Matches(query, xs[1]) THEN << xs[1] >> \o Filter(query, Tail(xs))
    ELSE Filter(query, Tail(xs))

search_students(query) ==
    /\ op' = "search"
    /\ ret' = "list"
    /\ shown' = Filter(query, students)
    /\ msg' = ""
    /\ saved' = "no"
    /\ NoExport
    /\ UNCHANGED << students, file, failures, mutated >>

\* ------------------------------------------------------ update_student
\* the record after "if name: s.name = name"
WithName(s, name) == IF name # << >> THEN [s EXCEPT !.name = name] ELSE s
\* the record after "s.age = age" of a validated age text
WithAge(s, age) == IF age # << >> THEN [s EXCEPT !.age = int(age).v] ELSE s
\* "s.grade = grade" without the "if grade:" test
WithGrade_Always(s, grade) == [s EXCEPT !.grade = grade]

\* the record after "if grade: s.grade = grade"
WithGrade(s, grade) == IF grade # << >> THEN [s EXCEPT !.grade = grade] ELSE s

update_student(id, name, age, grade) ==
    /\ IF ~HasId(students, id)
       THEN Rejected("update", "Student not found!")
       ELSE LET k == FirstIndex(students, id)
                named == WithName(students[k], name)
            IN  IF age # << >> /\ ~ValidAge(age)
                THEN \* the name is already assigned when int(age) raises
                     /\ students' = [students EXCEPT ![k] = named]
                     /\ op' = "update"
                     /\ ret' = "False"
                     /\ msg' = "Age must be a positive integer!"
                     /\ shown' = << >>
                     /\ saved' = "no"
                     /\ NoExport
                     /\ UNCHANGED << file, failures, mutated >>
                ELSE /\ students' =
                          [students EXCEPT ![k] = WithGrade(WithAge(named, age), grade)]
                     /\ save_students(students')
                     /\ op' = "update"
                     /\ ret' = "True"
                     /\ shown' = << >>
                     /\ mutated' = TRUE
                     /\ NoExport
         
\* delete_student with save_students() moved behind the loop: it runs on a miss too
delete_student_SavesOnMiss(id) ==
    /\ students' = IF HasId(students, id)
                   THEN RemoveAt(students, FirstIndex(students, id))
                   ELSE students
    /\ save_students(students')
    /\ op' = "delete"
    /\ ret' = IF HasId(students, id) THEN "True" ELSE "False"
    /\ shown' = << >>
    /\ mutated' = (mutated \/ HasId(students, id))
    /\ NoExport

\* ------------------------------------------------------ delete_student
delete_student(id) ==
    /\ IF ~HasId(students, id)
       THEN Rejected("delete", "Student not found!")
       ELSE /\ students' = RemoveAt(students, FirstIndex(students, id))
            /\ save_students(students')
            /\ op' = "delete"
            /\ ret' = "True"
            /\ shown' = << >>
            /\ mutated' = TRUE
            /\ NoExport

\* ------------------------------------------------------ clear_all_students
\* confirm is the answer to messagebox.askyesno
clear_all_students(confirm) ==
    /\ IF confirm
       THEN /\ students' = << >>
            /\ save_students(students')
            /\ op' = "clear"
            /\ ret' = "True"
            /\ shown' = << >>
            /\ mutated' = TRUE
            /\ NoExport
       ELSE /\ op' = "clear"
            /\ ret' = "False"
            /\ msg' = ""
            /\ shown' = << >>
            /\ saved' = "no"
            /\ NoExport
            /\ UNCHANGED << students, file, failures, mutated >>

\* ------------------------------------------------------ export_to_csv
\* i / len(self.students) * 100: the index in place of the count
Percent_FromIndex(i, n) == [num |-> i * 100, den |-> n]

\* the value (i + 1) / len(self.students) * 100 as the exact fraction num/den
Percent(i, n) == [num |-> (i + 1) * 100, den |-> n]

\* writer.writerow([s.id, s.name, s.age, s.grade])
CsvRow(s) == << s.id, s.name, s.age, s.grade >>

\* the header row "ID", "Name", "Age", "Grade"
CsvHeader == << <<73, 68>>, <<78, 97, 109, 101>>, <<65, 103, 101>>, <<71, 114, 97, 100, 101>> >>

\* "for i, s in enumerate(self.students)" from index i on; the writerow of row
\* number stop + 1 raises (stop = len(self.students): no write raises)
RECURSIVE ExportLoop(_, _, _, _)
ExportLoop(sts, i, stop, out) ==
    IF i = Len(sts) THEN [out EXCEPT !.done = TRUE]
    ELSE IF i = stop THEN out
    ELSE ExportLoop(sts, i + 1, stop,
                    [out EXCEPT !.rows = Append(@, CsvRow(sts[i + 1])),
                                !.calls = Append(@, Percent(i, Len(sts)))])

\* dialog: the outcome of asksaveasfilename and open(): "cancel", "open_fails", "ok"
export_to_csv(dialog, stop) ==
    /\ op' = "export"
    /\ ret' = "None"
    /\ shown' = << >>
    /\ saved' = "no"
    /\ UNCHANGED << students, file, failures, mutated >>
    /\ IF students = << >>
       THEN msg' = "No students to export!" /\ csv' = NoCsv /\ progress' = << >>
       ELSE CASE dialog = "cancel" -> msg' = "" /\ csv' = NoCsv /\ progress' = << >>
              [] dialog = "open_fails" ->
                    msg' = "Failed to export" /\ csv' = NoCsv /\ progress' = << >>
              [] dialog = "ok" ->
                    LET out == ExportLoop(students, 0, stop,
                                   [rows |-> << CsvHeader >>, calls |-> << >>, done |-> FALSE])
                    IN  /\ csv' = [exists |-> TRUE, rows |-> out.rows]
                        /\ progress' = out.calls
                        /\ msg' = IF out.done THEN "Data exported to CSV!"
                                  ELSE "Failed to export"

Next ==
    \/ \E id \in Ids, name \in Names, age \in AgeTexts, grade \in Grades :
          add_student(id, name, age, grade)
    \/ \E sort_by \in SortKeys : view_students(sort_by)
    \/ \E query \in Queries : search_students(query)
    \/ \E id \in Ids, name \in Names, age \in AgeTexts, grade \in Grades :
          update_student(id, name, age, grade)
    \/ \E id \in Ids : delete_student(id)
    \/ \E confirm \in BOOLEAN : clear_all_students(confirm)
    \/ \E dialog \in {"cancel", "open_fails", "ok"}, stop \in 0..Len(students) :
          export_to_csv(dialog, stop)

Spec == Init /\ [][Next]_vars

\* the calls that build, reorder, shrink and export a collection of up to three records
NextList ==
    \/ \E id \in ListIds, name \in ListNames, age \in GoodAgeTexts, grade \in ListGrades :
          add_student(id, name, age, grade)
    \/ \E sort_by \in SortKeys : view_students(sort_by)
    \/ \E query \in Queries : search_students(query)
    \/ \E id \in ListIds : delete_student(id)
    \/ \E dialog \in {"cancel", "open_fails", "ok"}, stop \in 0..Len(students) :
          export_to_csv(dialog, stop)

SpecList == Init /\ [][NextList]_vars

\* the calls that take field values: add, update and delete only
NextEdit ==
    \/ \E id \in Ids, name \in Names, age \in AgeTexts, grade \in Grades :
          add_student(id, name, age, grade)
    \/ \E id \in Ids, name \in EditNames, age \in EditAgeTexts, grade \in EditGrades :
          update_student(id, name, age, grade)
    \/ \E id \in Ids : delete_student(id)

SpecEdit == Init /\ [][NextEdit]_vars

\* the store whose constructor did not find a corrupted backing file
InitLoaded == Init /\ file.kind # "corrupt"

SpecLoaded == InitLoaded /\ [][Next]_vars

\* ====================================================== properties
\* the calls that mutate the collection
Mutations == {"add", "update", "delete", "clear"}

\* the records of a list, as a set
RecordSet(sts) == { sts[i] : i \in 1..Len(sts) }

\* position of the record with this id
Pos(sts, id) == CHOOSE i \in 1..Len(sts) : sts[i].id = id

\* ------------------------------------------------------ C1
\* C1: after any sequence of add, update and delete calls every record has a
\* non-empty id that no other record shares and a strictly positive integer age.
C1_UniqueIdsPositiveAges ==
    \A i \in 1..Len(students) :
        /\ students[i].id # << >>
        /\ students[i].age \in Nat /\ students[i].age > 0
        /\ \A j \in 1..Len(students) : j # i => students[j].id # students[i].id

\* two records are stored and the last call was a delete of an id that is absent
C1_Witness == Len(students) = 2 /\ op = "delete" /\ ret = "False" /\ mutated

\* ------------------------------------------------------ C2
\* the outcome of a call that failed and touched neither the list nor the file
FailedAndUntouched ==
    ret' = "False" /\ students' = students /\ file' = file /\ saved' = "no"

\* C2: an add whose id is already present, or whose id, name or grade is empty, or
\* whose age text is non-numeric or not strictly positive, returns failure, leaves
\* the collection as it was and does not write the backing file.
\* (Stated per step: a step with any other outcome is not such an add.)
C2_RejectedAddChangesNothing ==
    [][( op' = "add" /\ ~FailedAndUntouched )
       => \A id \in Ids, name \in Names, age \in AgeTexts, grade \in Grades :
             ( \/ HasId(students, id)
               \/ id = << >> \/ name = << >> \/ grade = << >>
               \/ age \in BadAgeTexts \cup { << >> } )
             => ~add_student(id, name, age, grade)]_vars

\* an add of an id that a stored record has was rejected
C2_Witness ==
    /\ op = "add" /\ ret = "False" /\ msg = "Student ID already exists!"
    /\ Len(students) = 1

\* ------------------------------------------------------ C3
\* C3: an update of an existing id with an age that fails the positive-integer
\* validation returns failure and changes nothing: no field of any record, the
\* name and grade of the targeted record included, and no save.
C3_BadAgeUpdateChangesNothing ==
    [][( op' = "update" /\ ~FailedAndUntouched )
       => \A id \in Ids, name \in Names, age \in BadAgeTexts, grade \in Grades :
             HasId(students, id) => ~update_student(id, name, age, grade)]_vars

\* ------------------------------------------------------ C4
\* C4: an update or delete of an id that no record has returns failure, leaves the
\* collection as it was and does not write the backing file.
\* (Stated per step: a step with any other outcome is not such a call.)
C4_NotFoundChangesNothing ==
    [][/\ ( op' = "update" /\ ~FailedAndUntouched )
          => \A id \in Ids, name \in EditNames, age \in EditAgeTexts, grade \in EditGrades :
                ~HasId(students, id) => ~update_student(id, name, age, grade)
       /\ ( op' = "delete" /\ ~FailedAndUntouched )
          => \A id \in Ids :
                ~HasId(students, id) => ~delete_student(id)]_vars

\* an update of an absent id was rejected while a record is stored
C4_Witness ==
    /\ op = "update" /\ ret = "False" /\ msg = "Student not found!"
    /\ Len(students) = 1

\* ------------------------------------------------------ C5
\* C5: a delete of a present id returns success, removes exactly the record with
\* that id, decreases the count by one and leaves every other record, with its
\* field values and relative order, as it was.
C5_DeleteRemovesExactlyOne ==
    [][op' = "delete"
       => \A id \in ListIds :
          ( delete_student(id) /\ HasId(students, id) )
          => ( /\ ret' = "True"
               /\ Len(students') = Len(students) - 1
               /\ ~HasId(students', id)
               /\ students' = SelectSeq(students, LAMBDA s : s.id # id) )]_vars

\* the first of three records was deleted: the other two keep their order,
\* which is not the order of their ids
C5_Witness ==
    /\ op = "delete" /\ ret = "True"
    /\ Len(students) = 2
    /\ students[1].id = <<97, 98>> /\ students[2].id = <<66>>

\* ------------------------------------------------------ C6
\* the integer that a valid age text of the calls stands for
ExpectedAge(text) == IF text = <<55>> THEN 7 ELSE 30

\* C6: a successful update changes only the fields of the targeted record for
\* which a non-empty value was supplied (they take the supplied value); the other
\* fields, the id, all other records and the order stay as they were.
C6_UpdateChangesOnlySuppliedFields ==
    [][( op' = "update" /\ ret' = "True" )
       => \A id \in Ids, name \in EditNames, age \in EditAgeTexts, grade \in EditGrades :
          update_student(id, name, age, grade)
          => ( /\ Len(students') = Len(students)
               /\ \A k \in 1..Len(students) :
                     IF students[k].id = id
                     THEN /\ students'[k].id = id
                          /\ students'[k].name =
                                (IF name = << >> THEN students[k].name ELSE name)
                          /\ students'[k].age =
                                (IF age = << >> THEN students[k].age ELSE ExpectedAge(age))
                          /\ students'[k].grade =
                                (IF grade = << >> THEN students[k].grade ELSE grade)
                     ELSE students'[k] = students[k] )]_vars

\* an update gave the second of two records the name "B" and the grade "b",
\* kept its age, and was written
C6_Witness ==
    /\ op = "update" /\ ret = "True" /\ saved = "ok"
    /\ Len(students) = 2
    /\ students[1] = Student(<<66>>, <<97>>, 7, <<65>>)
    /\ students[2] = Student(<<97>>, <<66>>, 7, <<98>>)

\* ------------------------------------------------------ C7
\* C7: right after a successful add, update, delete or confirmed clear-all whose
\* file write completed, a new store loaded from the backing file holds the same
\* records with the same field values in the same order.
C7_SaveThenLoadReproduces ==
    ( op \in Mutations /\ ret = "True" /\ saved = "ok" )
    => load_students(file) = students

\* a second record was added and written: two records with different fields
C7_Witness ==
    /\ op = "add" /\ ret = "True" /\ saved = "ok"
    /\ Len(students) = 2
    /\ students[1].name # students[2].name
    /\ students[1].grade # students[2].grade

\* ------------------------------------------------------ C8
\* key(a) <= key(b) under the ordering the claim names for the sort key
NotAfter(key, a, b) ==
    CASE key = "id" -> ~StrLess(b.id, a.id)
      [] key = "name" -> ~StrLess(Lower(b.name), Lower(a.name))
      [] key = "age" -> a.age <= b.age
      [] key = "grade" -> ~StrLess(Lower(b.grade), Lower(a.grade))

SameKey(key, a, b) == NotAfter(key, a, b) /\ NotAfter(key, b, a)

\* C8: a view with sort key id, name, age or grade reorders the stored list into
\* a permutation of itself, ascending by that key (name and grade ignoring case,
\* age numerically), ties in their previous relative order; a view without a key
\* returns the stored order and leaves it, and a search leaves it too.
C8_SortIsStableAndSticky ==
    [][/\ \A key \in {"id", "name", "age", "grade"} :
             view_students(key)
             => ( /\ Len(students') = Len(students)
                  /\ \A r \in RecordSet(students) \cup RecordSet(students') :
                        Cardinality({ i \in 1..Len(students) : students[i] = r })
                        = Cardinality({ i \in 1..Len(students') : students'[i] = r })
                  /\ \A i, j \in 1..Len(students') :
                        i < j => NotAfter(key, students'[i], students'[j])
                  /\ \A i, j \in 1..Len(students) :
                        ( i < j /\ SameKey(key, students[i], students[j]) )
                        => Pos(students', students[i].id) < Pos(students', students[j].id)
                  /\ shown' = students' )
       /\ view_students("") => ( students' = students /\ shown' = students )
       /\ \A query \in Queries : search_students(query) => students' = students]_vars

\* a view sorted three records by name: the file still has the order B, ab, a of
\* the adds; in memory B is last although "B" < "a", and the two records named
\* "a" are in the order they had, which is not the order of their ids
C8_Witness ==
    /\ op = "view"
    /\ Len(students) = 3
    /\ students[1].id = <<97, 98>> /\ students[1].name = <<97>>
    /\ students[2].id = <<97>> /\ students[2].name = <<97>>
    /\ students[3].id = <<66>> /\ students[3].name = <<66>>
    /\ shown = students
    /\ load_students(file) = << students[3], students[1], students[2] >>

\* ------------------------------------------------------ C9
\* a/b < c/d for the fractions passed to the progress callback
FracLess(x, y) == x.num * y.den < y.num * x.den

\* C9: an export of N >= 1 records that completes has called the progress callback
\* N times, once after each data row in collection order, with strictly increasing
\* percentages that end at 100; an export of an empty collection fails without a
\* callback and without a file.
C9_ExportProgress ==
    op = "export" =>
        /\ students = << >> =>
              ( progress = << >> /\ ~csv.exists /\ msg = "No students to export!" )
        /\ csv.exists =>
              /\ Len(progress) = Len(csv.rows) - 1
              /\ \A i \in 1..Len(progress) : csv.rows[i + 1] = CsvRow(students[i])
        /\ msg = "Data exported to CSV!" =>
              /\ Len(students) >= 1
              /\ Len(progress) = Len(students)
              /\ \A i \in 1..(Len(progress) - 1) : FracLess(progress[i], progress[i + 1])
              /\ progress[Len(progress)].num = 100 * progress[Len(progress)].den

\* an export of three records ran to its end
C9_Witness ==
    op = "export" /\ msg = "Data exported to CSV!" /\ Len(students) = 3

\* ------------------------------------------------------ C10
\* C10: from a store loaded without corruption, between the calls of any sequence
\* in which no file write failed and some mutation succeeded, the backing file
\* and the in-memory collection hold the same set of records.
C10_DiskAndMemoryHoldSameRecords ==
    ( failures = 0 /\ mutated )
    => RecordSet(load_students(file)) = RecordSet(students)
====
